---- MODULE Spec2Model ----
(***************************************************************************)
(* kinsumer: a gevent based consumer of a sharded Kinesis stream.          *)
(*                                                                         *)
(* The model follows src/kinsumer: one KinesisShard greenlet per shard id  *)
(* (streams.py), its InMemoryBucket (bucket.py), the shared checkpointer   *)
(* (checkpointer.py), Consumer.dispatch / spawn_shard / close_shard and    *)
(* the ShardMonitor greenlet (consumer.py), and ShardContext.pop (ctx.py). *)
(* Greenlets are cooperative: a step of the model is the code a greenlet   *)
(* runs between two points where it can yield (a wire call of the boto3    *)
(* client under monkey.patch_all(), or gevent.sleep).                      *)
(*                                                                         *)
(* Spec and SpecShards run the consumer group on a stream of one and of    *)
(* two shards. SpecBucket drives one InMemoryBucket call by call, and      *)
(* SpecStore one checkpointer (InMemoryCheckpointer or FileCheckpointer,   *)
(* with its state file, process crashes and reloads) call by call.         *)
(* SpecProcess runs the whole of Consumer.process on a stream of one       *)
(* shard, with the exceptions of the discovery calls, SIGQUIT and the      *)
(* return of the join. SpecCursor applies KinesisShard.__get_iterator to   *)
(* arguments of every kind, SpecHooks runs one poll cycle hook call by     *)
(* hook call, and SpecConfig applies Config.get_namespace (config.py).     *)
(* SpecBatch runs the group on one shard with records enough to fill a     *)
(* bucket to its largest size.                                             *)
(***************************************************************************)
EXTENDS Integers, Sequences, FiniteSets, TLC

\* ------------------------------------------------------------------------
\* Bounds of the model
\* ------------------------------------------------------------------------

\* Number of records the producers put in a behaviour of Spec: the sequence
\* numbers of a shard are 1..MaxSeq.
MaxSeq == 2

\* Number of get_records responses a behaviour of Spec holds.
MaxFetches == 4

\* Number of get_records responses a behaviour of SpecShards holds.
MaxFetchesShards == 1

\* Number of records the producers put in a behaviour of SpecShards.
MaxSeqShards == 1

\* Number of get_records responses a behaviour of SpecProcess holds.
MaxFetchesProcess == 2

\* Number of records the producers put in a behaviour of SpecProcess.
MaxSeqProcess == 1

\* Number of fetches that return in a behaviour of SpecBatch.
MaxFetchesBatch == 2

\* Number of records the producers put in a behaviour of SpecBatch.
MaxSeqBatch == 3

\* Number of hooks of one kind an application registers in SpecHooks.
MaxHooks == 2

\* Number of records in the bucket when the cycle of SpecHooks drains it.
MaxBuffered == 2

\* Number of items of the configuration in SpecConfig.
MaxItems == 2

\* Number of calls made on the bucket in a behaviour of SpecBucket.
MaxCalls == 6

\* The records added to the bucket of SpecBucket have the sequence numbers
\* 1..MaxRecord, in any order.
MaxRecord == 2

\* Number of checkpoint calls in a behaviour of SpecStore.
MaxCheckpointCalls == 3

\* The sequence numbers passed to checkpoint in SpecStore are 1..MaxSequence.
MaxSequence == 2

\* ------------------------------------------------------------------------
\* Configuration (Consumer.__default_config), with small values
\* ------------------------------------------------------------------------

BUCKET_SIZE_LIMIT == 2

BUCKET_COUNT_LIMIT == 2

SHARD_READ_LIMIT == 2

\* The shard ids describe_stream can list.
ShardIds == {"shardId-0", "shardId-1"}

\* The values of SHARD_ITERATOR_TYPE the model draws from.
IteratorTypes == {"TRIM_HORIZON", "LATEST"}

\* Python's None for a sequence number (dict.get on a missing key); the
\* sequence numbers of the records are 1..MaxSeq.
None == 0

\* The cursor of a request with ShardIteratorType TRIM_HORIZON: before the
\* first record.
TRIM_HORIZON == 0

VARIABLES
    config,        \* Consumer.config: SHARD_ITERATOR_TYPE, PROTRACTOR_ENABLE
    stream,        \* the service: shard id -> number of records put so far
    sclosed,       \* the service: shard id -> the shard is closed (resharded)
    checkpoints,   \* Checkpointer._checkpoints: a dict shard id -> sequence
    shards,        \* Consumer.shards: the tracked set (KinesisShard hashes by id)
    main,          \* position of Consumer.dispatch
    pc,            \* shard id -> position of the shard's greenlet
    iterator,      \* KinesisShard.iterator, as the position of the cursor
    closed,        \* KinesisShard.__closed
    bucket,        \* KinesisShard.bucket: [data, count]
    outcome,       \* how the last __get_records call of the shard's greenlet ended
    error,         \* the exception that ended the shard's greenlet, "none" if none did
    restarted,     \* history: a greenlet was spawned for a shard id whose greenlet had exited
    handed,        \* history: sequence numbers passed to do_transform, in order
    served,        \* history: sequence numbers get_records returned
    failed,        \* history: sequence numbers of batches whose hook raised
    budget,        \* number of get_records responses still to come
    listed,        \* the service: the shard ids of the stream
    quota,         \* number of records the producers still put
    mpc,           \* position of the ShardMonitor greenlet
    todo,          \* monitor: discovered shard ids not yet constructed
    cand           \* monitor: the KinesisShard objects constructed this tick

\* Consumer.process and the signal handler of Consumer.dispatch.
VARIABLES
    signalled,     \* SIGQUIT was delivered to the running consumer
    escaped,       \* the exception that left Consumer.dispatch, "none" if none did
    torn           \* history: the calls of the teardown hooks, [hook, exc]

lvars == <<signalled, escaped, torn>>

\* The variables of the consumer group.
wvars == <<config, stream, sclosed, checkpoints, shards, main, pc, iterator,
           closed, bucket, outcome, error, restarted, handed, served, failed, budget,
           listed, quota, mpc, todo, cand, lvars>>

\* An InMemoryBucket driven call by call (SpecBucket).
VARIABLES
    ubucket,       \* the bucket: [data, count]
    ubatch,        \* what its last get call returned (or that it raised)
    ucall,         \* the last call made on it
    ucalls         \* number of calls made on it

bvars == <<ubucket, ubatch, ucall, ucalls>>

\* A checkpointer driven call by call (SpecStore).
VARIABLES
    variant,       \* "memory": InMemoryCheckpointer, "file": FileCheckpointer
    store,         \* self._checkpoints of the checkpointer object
    file,          \* the state file: [exists, text]
    snapshot,      \* the dict the last get_checkpoints call returned
    cpos,          \* shard id -> position of its greenlet in FileCheckpointer.checkpoint
    alive,         \* the process runs (FALSE after a crash, until a new store is built)
    latest,        \* history: shard id -> sequence of the last checkpoint call that returned
    scalls         \* number of checkpoint calls made

cvars == <<variant, store, file, snapshot, cpos, alive, latest, scalls>>

\* KinesisShard.__get_iterator applied to arguments of every kind (SpecCursor).
VARIABLES
    uargs,         \* the shard and the arguments: [shard, iterator, has_iterator,
                   \* sequence_number, has_ts, overhang]
    ucursor        \* what the call returned and the request it sent

kvars == <<uargs, ucursor>>

\* One poll cycle of KinesisShard.dispatch from the drain on, hook call by
\* hook call (SpecHooks).
VARIABLES
    transform_funcs,      \* Consumer.__transform_funcs, in registration order
    after_consume_funcs,  \* Consumer.__after_consume_func, in registration order
    hbucket,       \* the shard's bucket
    hforce,        \* self.__closed when the bucket is drained
    hpc,           \* position of the greenlet in the cycle
    hdata,         \* the local variable data: [list, own]
    hlast,         \* the local variables last_sequence_number, last_arrival_timestamp
    htodo,         \* the hooks the running loop has still to call
    hcalls,        \* history: the hook calls, with their arguments
    hdrained,      \* history: the records the drain returned
    hwritten       \* history: the sequences passed to checkpointer.checkpoint

hvars == <<transform_funcs, after_consume_funcs, hbucket, hforce, hpc, hdata, hlast,
           htodo, hcalls, hdrained, hwritten>>

\* Config.get_namespace applied to a configuration (SpecConfig).
VARIABLES
    cfg,           \* the Config dict: the items in iteration order
    gargs,         \* the arguments: [namespace, lowercase, trim_namespace]
    grv            \* what the call returned: [called, rv]

gvars == <<cfg, gargs, grv>>

vars == <<wvars, bvars, cvars, kvars, hvars, gvars>>

\* ------------------------------------------------------------------------
\* Helpers
\* ------------------------------------------------------------------------

Last(s) == s[Len(s)]

SeqToSet(s) == {s[i] : i \in 1..Len(s)}

IsStrictlyIncreasing(s) == \A i \in 1..Len(s) : \A j \in 1..Len(s) : i < j => s[i] < s[j]

\* KinesisRecord: a record of shard s is identified by its sequence number;
\* the arrival timestamp grows with it.
KinesisRecord(s, n) ==
    [shard_id |-> s, sequence_number |-> n, approximate_arrival_timestamp |-> n]

\* ------------------------------------------------------------------------
\* bucket.py: InMemoryBucket
\* ------------------------------------------------------------------------

InMemoryBucket == [data |-> <<>>, count |-> 0]

\* InMemoryBucket.add
add(b, record) == [b EXCEPT !.data = Append(@, record)]

\* Mutant of flush: the records are cleared, the poll counter is kept.
flush_keeping_count(b) == [b EXCEPT !.data = <<>>]

\* InMemoryBucket.flush
flush(b) == [data |-> <<>>, count |-> 0]

\* Mutant of raw_get: the sequence number and the timestamp are those of the
\* first record.
raw_get_of_first(b) ==
    IF Len(b.data) = 0
    THEN [raised |-> TRUE, data |-> <<>>, last_sequence_number |-> None,
          last_arrival_timestamp |-> None, own |-> FALSE, bucket |-> b]
    ELSE [raised |-> FALSE, data |-> b.data,
          last_sequence_number |-> Head(b.data).sequence_number,
          last_arrival_timestamp |-> Head(b.data).approximate_arrival_timestamp,
          own |-> TRUE, bucket |-> b]

\* Mutant of raw_get: the caller is handed a copy of the list.
raw_get_copying(b) ==
    IF Len(b.data) = 0
    THEN [raised |-> TRUE, data |-> <<>>, last_sequence_number |-> None,
          last_arrival_timestamp |-> None, own |-> FALSE, bucket |-> b]
    ELSE [raised |-> FALSE, data |-> b.data,
          last_sequence_number |-> Last(b.data).sequence_number,
          last_arrival_timestamp |-> Last(b.data).approximate_arrival_timestamp,
          own |-> FALSE, bucket |-> b]

\* InMemoryBucket.__get: raises IndexError on an empty list. The list it
\* returns is self.__data itself (own), not a copy.
raw_get(b) ==
    IF Len(b.data) = 0
    THEN [raised |-> TRUE, data |-> <<>>, last_sequence_number |-> None,
          last_arrival_timestamp |-> None, own |-> FALSE, bucket |-> b]
    ELSE [raised |-> FALSE, data |-> b.data,
          last_sequence_number |-> Last(b.data).sequence_number,
          last_arrival_timestamp |-> Last(b.data).approximate_arrival_timestamp,
          own |-> TRUE, bucket |-> b]

\* Mutant of get: a non-forced call returns the records whenever there are any.
get_eager(b, force) ==
    IF force \/ Len(b.data) > 0
    THEN raw_get([b EXCEPT !.count = IF force THEN @ ELSE @ + 1])
    ELSE [raised |-> FALSE, data |-> <<>>, last_sequence_number |-> None,
          last_arrival_timestamp |-> None, own |-> FALSE,
          bucket |-> [b EXCEPT !.count = @ + 1]]

\* Mutant of get: the force flag is ignored, the thresholds always apply.
get_ignoring_force(b, force) ==
    LET b1 == [b EXCEPT !.count = @ + 1]
        size == Len(b1.data)
    IN  IF (size >= BUCKET_SIZE_LIMIT \/ b1.count >= BUCKET_COUNT_LIMIT) /\ size > 0
        THEN raw_get(b1)
        ELSE [raised |-> FALSE, data |-> <<>>, last_sequence_number |-> None,
              last_arrival_timestamp |-> None, own |-> FALSE, bucket |-> b1]

\* Mutant of get: a non-forced call looks at the poll counter only.
get_ignoring_size(b, force) ==
    IF force
    THEN raw_get(b)
    ELSE LET b1 == [b EXCEPT !.count = @ + 1]
         IN  IF b1.count >= BUCKET_COUNT_LIMIT /\ Len(b1.data) > 0
             THEN raw_get(b1)
             ELSE [raised |-> FALSE, data |-> <<>>, last_sequence_number |-> None,
                   last_arrival_timestamp |-> None, own |-> FALSE, bucket |-> b1]

\* Mutant of get: a non-forced call looks at the number of records only.
get_ignoring_count(b, force) ==
    IF force
    THEN raw_get(b)
    ELSE LET b1 == [b EXCEPT !.count = @ + 1]
         IN  IF Len(b1.data) >= BUCKET_SIZE_LIMIT /\ Len(b1.data) > 0
             THEN raw_get(b1)
             ELSE [raised |-> FALSE, data |-> <<>>, last_sequence_number |-> None,
                   last_arrival_timestamp |-> None, own |-> FALSE, bucket |-> b1]

\* InMemoryBucket.get: the result and the bucket after the call.
get(b, force) ==
    IF force
    THEN raw_get(b)
    ELSE LET b1 == [b EXCEPT !.count = @ + 1]
             size == Len(b1.data)
         IN  IF (size >= BUCKET_SIZE_LIMIT \/ b1.count >= BUCKET_COUNT_LIMIT) /\ size > 0
             THEN raw_get(b1)
             ELSE [raised |-> FALSE, data |-> <<>>, last_sequence_number |-> None,
                   last_arrival_timestamp |-> None, own |-> FALSE, bucket |-> b1]

\* ------------------------------------------------------------------------
\* checkpointer.py: InMemoryCheckpointer
\* ------------------------------------------------------------------------

\* InMemoryCheckpointer.get_checkpoint: dict.get
get_checkpoint(cp, shard_id) == IF shard_id \in DOMAIN cp THEN cp[shard_id] ELSE None

\* Mutant of checkpoint: the mapping is replaced by the one entry.
checkpoint_replacing(cp, shard_id, sequence) == [k \in {shard_id} |-> sequence]

\* InMemoryCheckpointer.checkpoint: dict item assignment
checkpoint(cp, shard_id, sequence) ==
    [k \in DOMAIN cp \cup {shard_id} |-> IF k = shard_id THEN sequence ELSE cp[k]]

\* ------------------------------------------------------------------------
\* streams.py: KinesisShard
\* ------------------------------------------------------------------------

\* The cursor the service returns for get_shard_iterator.
get_shard_iterator(s, type, sequence_number) ==
    CASE type = "LATEST" -> stream[s]
      [] type = "AFTER_SEQUENCE_NUMBER" -> sequence_number
      [] OTHER -> TRIM_HORIZON

\* The request KinesisShard.__get_iterator sends to get_shard_iterator, or
\* NoRequest when it returns the iterator it was passed. overhang is the
\* result of __overhang for the last arrival timestamp (the clock is an
\* input); has_ts says that a last arrival timestamp was passed.
NoRequest == [type |-> "none", sequence_number |-> None]

\* Mutant of iterator_request: the iterator passed in is looked at first.
iterator_request_continuing(has_iterator, sequence_number, has_ts, overhang) ==
    IF has_iterator
    THEN NoRequest
    ELSE IF config.PROTRACTOR_ENABLE /\ has_ts /\ overhang
         THEN [type |-> "LATEST", sequence_number |-> None]
         ELSE IF sequence_number # None
              THEN [type |-> "AFTER_SEQUENCE_NUMBER", sequence_number |-> sequence_number]
              ELSE [type |-> config.SHARD_ITERATOR_TYPE, sequence_number |-> None]

iterator_request(has_iterator, sequence_number, has_ts, overhang) ==
    IF config.PROTRACTOR_ENABLE /\ has_ts /\ overhang
    THEN [type |-> "LATEST", sequence_number |-> None]
    ELSE IF has_iterator
         THEN NoRequest
         ELSE IF sequence_number # None
              THEN [type |-> "AFTER_SEQUENCE_NUMBER", sequence_number |-> sequence_number]
              ELSE [type |-> config.SHARD_ITERATOR_TYPE, sequence_number |-> None]

\* KinesisShard.__get_iterator: the cursor it returns.
get_iterator(s, next_iterator, has_iterator, sequence_number, has_ts, overhang) ==
    LET request == iterator_request(has_iterator, sequence_number, has_ts, overhang)
    IN  IF request = NoRequest
        THEN next_iterator
        ELSE get_shard_iterator(s, request.type, request.sequence_number)

\* KinesisShard.__init__: the fields of a new shard object.
KinesisShard(s) ==
    LET sequence_number == get_checkpoint(checkpoints, s)
    IN  [sequence_number |-> sequence_number,
         iterator |-> get_iterator(s, None, FALSE, sequence_number, FALSE, FALSE)]

\* The records get_records returns for a cursor at position it: the next n.
Records(s, it, n) == [i \in 1..n |-> KinesisRecord(s, it + i)]

\* The sequence numbers of a list of records.
SequenceNumbers(records) == [i \in 1..Len(records) |-> records[i].sequence_number]

\* dispatch, lines 115-116: for record in records: self.bucket.add(record)
RECURSIVE add_all(_, _)
add_all(b, records) ==
    IF records = <<>> THEN b ELSE add_all(add(b, Head(records)), Tail(records))

\* Mutant of close_shard: the shard stays in the tracked set.
close_shard_keeping(tracked, s) == [shards |-> tracked, raised |-> FALSE]

\* set.remove of Consumer.close_shard: the set afterwards, and whether
\* KeyError was raised.
close_shard(tracked, s) == [shards |-> tracked \ {s}, raised |-> s \notin tracked]

\* Mutant of Abort: the exception takes every greenlet of the group down.
AbortKillingAll(s, e) ==
    /\ pc' = [t \in ShardIds |-> IF pc[t] = "none" THEN "none" ELSE "exited"]
    /\ shards' = {}
    /\ error' = [error EXCEPT ![s] = e]

\* KinesisShard._run, lines 228-231, after an exception e escaped dispatch:
\* handle_exception logs it, ctx.pop() calls close_shard, the greenlet ends.
Abort(s, e) ==
    LET r == close_shard(shards, s)
    IN  /\ pc' = [pc EXCEPT ![s] = "exited"]
        /\ shards' = r.shards
        /\ error' = [error EXCEPT ![s] = IF r.raised THEN "KeyError" ELSE e]

\* ------------------------------------------------------------------------
\* One poll cycle of KinesisShard.dispatch, by the outcome of __get_records
\* ------------------------------------------------------------------------

\* Lines 102-104: ExpiredIteratorException is re-raised.
FetchExpired(s) ==
    /\ pc[s] = "fetch"
    /\ outcome' = [outcome EXCEPT ![s] = "ExpiredIteratorException"]
    /\ Abort(s, "ExpiredIteratorException")
    /\ UNCHANGED <<bvars, cvars, kvars, hvars, gvars, lvars, config, stream, sclosed, checkpoints, main, iterator, closed,
                   bucket, restarted, handed, served, failed, budget, listed, quota,
                   mpc, todo, cand>>

\* Mutant of AfterThrottle: no sleep and no `continue`, the handler falls
\* through to len(records) as the ClientError handler does.
AfterThrottleFallingThrough == "exited"

\* Where the greenlet is after the handler of lines 105-109: logged, asleep
\* for one iterator interval, then `continue`.
AfterThrottle == "throttled"

\* Lines 105-109: ProvisionedThroughputExceededException.
FetchThrottled(s) ==
    /\ pc[s] = "fetch"
    /\ pc' = [pc EXCEPT ![s] = AfterThrottle]
    /\ outcome' = [outcome EXCEPT ![s] = "ProvisionedThroughputExceededException"]
    /\ UNCHANGED <<bvars, cvars, kvars, hvars, gvars, lvars, config, stream, sclosed, checkpoints, shards, main, iterator,
                   closed, bucket, error, restarted, handed, served, failed, budget,
                   listed, quota, mpc, todo, cand>>

\* Lines 108-109 and 97: the sleep of the throttle handler ends, `continue`
\* re-tests `while not self.__closed` (a greenlet that fetches is not closed).
ThrottleWake(s) ==
    /\ pc[s] = "throttled"
    /\ ~closed[s]
    /\ pc' = [pc EXCEPT ![s] = "fetch"]
    /\ UNCHANGED <<bvars, cvars, kvars, hvars, gvars, lvars, config, stream, sclosed, checkpoints, shards, main, iterator,
                   closed, bucket, outcome, error, restarted, handed, served, failed,
                   budget, listed, quota, mpc, todo, cand>>

\* Lines 110-113: a ClientError is logged and execution falls through to
\* len(records) with records = None: TypeError escapes dispatch.
FetchClientError(s) ==
    /\ pc[s] = "fetch"
    /\ outcome' = [outcome EXCEPT ![s] = "ClientError"]
    /\ Abort(s, "TypeError")
    /\ UNCHANGED <<bvars, cvars, kvars, hvars, gvars, lvars, config, stream, sclosed, checkpoints, main, iterator, closed,
                   bucket, restarted, handed, served, failed, budget, listed, quota,
                   mpc, todo, cand>>

\* Mutant of HookRaised: the exception is logged and swallowed, the loop
\* goes on to its sleep.
HookSwallowed(s) ==
    /\ pc' = [pc EXCEPT ![s] = "sleep"]
    /\ error' = [error EXCEPT ![s] = "HookError"]
    /\ UNCHANGED shards

\* Lines 151-157: what the except clause does with an exception of a hook:
\* it is logged and raised again, out of dispatch.
HookRaised(s) == Abort(s, "HookError")

\* Lines 158-161, the finally clause: the bucket and the checkpoints after it.
Commit(s, g) ==
    [bucket |-> flush(g.bucket),
     checkpoints |-> checkpoint(checkpoints, s, g.last_sequence_number)]

\* Lines 112-163: get_records returned n records.
FetchRecords(s, n, overhang, hook_raises) ==
    LET it == iterator[s]
        records == Records(s, it, n)
        has_next == ~(sclosed[s] /\ it + n = stream[s])
        b1 == add_all(bucket[s], records)
        g == get(b1, ~has_next)
    IN  /\ pc[s] = "fetch"
        /\ n <= stream[s] - it
        /\ budget > 0
        /\ budget' = budget - 1
        /\ served' = [served EXCEPT ![s] = @ \cup SeqToSet(SequenceNumbers(records))]
        /\ outcome' = [outcome EXCEPT ![s] = "records"]
        /\ iterator' = [iterator EXCEPT ![s] =
                          IF has_next
                          THEN get_iterator(s, it + n, TRUE, None, n > 0, overhang)
                          ELSE it]
        /\ closed' = [closed EXCEPT ![s] = ~has_next]
        /\ IF g.raised
           THEN \* line 132: bucket.get(True) on an empty bucket, IndexError
                /\ ~hook_raises
                /\ Abort(s, "IndexError")
                /\ bucket' = [bucket EXCEPT ![s] = g.bucket]
                /\ UNCHANGED <<checkpoints, handed, failed>>
           ELSE IF Len(g.data) > 0
           THEN /\ handed' = [handed EXCEPT ![s] = @ \o SequenceNumbers(g.data)]
                /\ bucket' = [bucket EXCEPT ![s] = Commit(s, g).bucket]
                /\ checkpoints' = Commit(s, g).checkpoints
                /\ IF hook_raises
                   THEN /\ HookRaised(s)
                        /\ failed' = [failed EXCEPT ![s] =
                                        @ \cup SeqToSet(SequenceNumbers(g.data))]
                   ELSE /\ pc' = [pc EXCEPT ![s] = "sleep"]
                        /\ UNCHANGED <<shards, error, failed>>
           ELSE /\ ~hook_raises
                /\ bucket' = [bucket EXCEPT ![s] = g.bucket]
                /\ pc' = [pc EXCEPT ![s] = "sleep"]
                /\ UNCHANGED <<checkpoints, shards, error, handed, failed>>
        /\ UNCHANGED <<bvars, cvars, kvars, hvars, gvars, lvars, config, stream, sclosed, restarted, listed, quota, main, mpc,
                       todo, cand>>

\* Where the greenlet goes when the sleep of line 163 ends: line 97.
AfterSleep(s) == IF closed[s] THEN "exited" ELSE "fetch"

\* Lines 163, 97, 164 and _run's finally: the poll sleep ends. When the shard
\* is closed, dispatch calls close_shard and returns, and ctx.pop() calls
\* close_shard again: set.remove raises KeyError out of the greenlet.
Wake(s) ==
    /\ pc[s] = "sleep"
    /\ pc' = [pc EXCEPT ![s] = AfterSleep(s)]
    /\ IF AfterSleep(s) = "exited"
       THEN LET r1 == close_shard(shards, s)
                r2 == close_shard(r1.shards, s)
            IN  /\ shards' = r2.shards
                /\ error' = [error EXCEPT ![s] =
                               IF r1.raised \/ r2.raised THEN "KeyError" ELSE @]
       ELSE UNCHANGED <<shards, error>>
    /\ UNCHANGED <<bvars, cvars, kvars, hvars, gvars, lvars, config, stream, sclosed, checkpoints, main, iterator, closed,
                   bucket, outcome, restarted, handed, served, failed, budget, listed,
                   quota, mpc, todo, cand>>

\* ------------------------------------------------------------------------
\* consumer.py: Consumer.dispatch, spawn_shard, ShardMonitor
\* ------------------------------------------------------------------------

\* Mutant of spawn_shards: the greenlets are started and not tracked.
spawn_shards_untracked(objs) ==
    LET D == DOMAIN objs
    IN  /\ shards' = shards
        /\ pc' = [s \in ShardIds |-> IF s \in D THEN "fetch" ELSE pc[s]]
        /\ iterator' = [s \in ShardIds |-> IF s \in D THEN objs[s].iterator ELSE iterator[s]]
        /\ closed' = [s \in ShardIds |-> IF s \in D THEN FALSE ELSE closed[s]]
        /\ bucket' = [s \in ShardIds |-> IF s \in D THEN InMemoryBucket ELSE bucket[s]]
        /\ outcome' = [s \in ShardIds |-> IF s \in D THEN "none" ELSE outcome[s]]
        /\ error' = [s \in ShardIds |-> IF s \in D THEN "none" ELSE error[s]]
        /\ restarted' = [s \in ShardIds |->
                            restarted[s] \/ (s \in D /\ pc[s] = "exited")]

\* Consumer.spawn_shard for every shard object of objs (a function from
\* shard ids to the fields KinesisShard.__init__ set).
spawn_shards(objs) ==
    LET D == DOMAIN objs
    IN  /\ shards' = shards \cup D
        /\ pc' = [s \in ShardIds |-> IF s \in D THEN "fetch" ELSE pc[s]]
        /\ iterator' = [s \in ShardIds |-> IF s \in D THEN objs[s].iterator ELSE iterator[s]]
        /\ closed' = [s \in ShardIds |-> IF s \in D THEN FALSE ELSE closed[s]]
        /\ bucket' = [s \in ShardIds |-> IF s \in D THEN InMemoryBucket ELSE bucket[s]]
        /\ outcome' = [s \in ShardIds |-> IF s \in D THEN "none" ELSE outcome[s]]
        /\ error' = [s \in ShardIds |-> IF s \in D THEN "none" ELSE error[s]]
        /\ restarted' = [s \in ShardIds |->
                            restarted[s] \/ (s \in D /\ pc[s] = "exited")]

\* The teardown hooks, in the order Consumer.teardown_consumer registered them.
teardown_consumer_funcs == <<"t1", "t2">>

\* Consumer.do_teardown_consumer(exc): the calls it makes, in order, when the
\* r-th call raises (r = 0: no hook raises). The exception of a hook leaves
\* the loop.
do_teardown_consumer(exc, r) ==
    LET n == Len(teardown_consumer_funcs)
        m == IF r = 0 THEN n ELSE r
    IN  [i \in 1..m |-> [hook |-> teardown_consumer_funcs[n + 1 - i], exc |-> exc,
                         raised |-> (i = r)]]

\* Mutant of process_error: every exception that leaves dispatch is passed on.
process_error_of_any(e) == e

\* Consumer.process, lines 286-293: the value of `error` when ctx.pop(error)
\* runs. `except Exception` does not catch SystemExit.
process_error(e) == IF e \in {"none", "SystemExit"} THEN "none" ELSE e

\* ConsumerContext.pop(exc) of Consumer.process: the reference count drops to
\* zero and the teardown hooks are called.
ProcessExit(e) ==
    /\ escaped' = e
    /\ \E r \in 0..Len(teardown_consumer_funcs) :
           torn' = torn \o do_teardown_consumer(process_error(e), r)

\* Mutant of is_active: every status counts as active.
is_active_always(status) == TRUE

\* Consumer.dispatch, line 260: stream.status == 'ACTIVE'
is_active(status) == status = "ACTIVE"

\* Consumer.process with Consumer.dispatch: describe_stream answers with a
\* status and the shards D. A stream that is not ACTIVE ends in sys.exit().
Dispatch(status, D) ==
    /\ main = "start"
    /\ IF is_active(status)
       THEN /\ spawn_shards([s \in D |-> KinesisShard(s)])
            /\ main' = "join"
            /\ mpc' = "tick"
            /\ UNCHANGED <<escaped, torn>>
       ELSE /\ main' = "exit"
            /\ ProcessExit("SystemExit")
            /\ UNCHANGED <<shards, pc, iterator, closed, bucket, outcome, error,
                           restarted, mpc>>
    /\ UNCHANGED <<bvars, cvars, kvars, hvars, gvars, signalled, config, stream, sclosed,
                   checkpoints, handed, served, failed, budget, listed, quota, todo, cand>>

\* Consumer.process when describe_stream of line 259 raises a ClientError:
\* the exception is logged and handed to the teardown hooks, process returns.
DispatchRaises ==
    /\ main = "start"
    /\ main' = "returned"
    /\ ProcessExit("ClientError")
    /\ UNCHANGED <<bvars, cvars, kvars, hvars, gvars, signalled, config, stream,
                   sclosed, checkpoints, shards, pc, iterator, closed, bucket, outcome,
                   error, restarted, handed, served, failed, budget, listed, quota, mpc,
                   todo, cand>>

\* Line 266: Group.join returns when the monitor and every shard greenlet
\* have ended; dispatch and process return.
JoinReturns ==
    /\ main = "join"
    /\ mpc = "dead"
    /\ \A s \in ShardIds : pc[s] \in {"none", "exited"}
    /\ main' = "returned"
    /\ ProcessExit("none")
    /\ UNCHANGED <<bvars, cvars, kvars, hvars, gvars, signalled, config, stream,
                   sclosed, checkpoints, shards, pc, iterator, closed, bucket, outcome,
                   error, restarted, handed, served, failed, budget, listed, quota, mpc,
                   todo, cand>>

\* gevent.killall(greenlets, ...) of gevent 1.2.2: the greenlets argument is
\* required.
killall(given) == IF given THEN "killed" ELSE "TypeError"

\* Line 261, gevent.signal(signal.SIGQUIT, gevent.killall): SIGQUIT is
\* delivered, the handler greenlet calls gevent.killall with no argument.
Signal ==
    /\ main = "join"
    /\ ~signalled
    /\ signalled' = TRUE
    /\ IF killall(FALSE) = "killed"
       THEN /\ pc' = [s \in ShardIds |-> IF pc[s] = "none" THEN "none" ELSE "exited"]
            /\ mpc' = "dead"
       ELSE UNCHANGED <<pc, mpc>>
    /\ UNCHANGED <<bvars, cvars, kvars, hvars, gvars, escaped, torn, config,
                   stream, sclosed, checkpoints, shards, main, iterator, closed, bucket,
                   outcome, error, restarted, handed, served, failed, budget, listed,
                   quota, todo, cand>>

\* ShardMonitor._run, lines 313-316: describe_stream, or get_shard_iterator
\* in the constructor of a KinesisShard, raises. Nothing in _run catches it:
\* the monitor greenlet ends.
MonitorRaises ==
    /\ mpc \in {"tick", "construct"}
    /\ mpc' = "dead"
    /\ todo' = {}
    /\ cand' = <<>>
    /\ UNCHANGED <<bvars, cvars, kvars, hvars, gvars, lvars, config, stream, sclosed,
                   checkpoints, shards, main, pc, iterator, closed, bucket, outcome,
                   error, restarted, handed, served, failed, budget, listed, quota>>

\* ShardMonitor._run, line 313: describe_stream lists the shards D.
MonitorTick(D) ==
    /\ mpc = "tick"
    /\ mpc' = "construct"
    /\ todo' = D
    /\ cand' = <<>>
    /\ UNCHANGED <<bvars, cvars, kvars, hvars, gvars, lvars, config, stream, sclosed, checkpoints, shards, main, pc, iterator,
                   closed, bucket, outcome, error, restarted, handed, served, failed,
                   budget, listed, quota>>

\* Lines 314-316 with KinesisStream.get_shards: one KinesisShard is
\* constructed; its get_shard_iterator call is a wire call, where the other
\* greenlets run.
MonitorConstruct(s) ==
    /\ mpc = "construct"
    /\ s \in todo
    /\ todo' = todo \ {s}
    /\ cand' = [k \in DOMAIN cand \cup {s} |-> IF k = s THEN KinesisShard(s) ELSE cand[k]]
    /\ UNCHANGED <<bvars, cvars, kvars, hvars, gvars, lvars, config, stream, sclosed, checkpoints, shards, main, pc, iterator,
                   closed, bucket, outcome, error, restarted, handed, served, failed,
                   budget, listed, quota, mpc>>

\* Mutant of diff_shards: every discovered shard is spawned.
diff_shards_all(discovered, tracked) == discovered

\* Line 322: diff_shards = shards - self.consumer.shards
diff_shards(discovered, tracked) == discovered \ tracked

\* Lines 322-332: the new shards are spawned, the monitor sleeps.
MonitorSpawn ==
    /\ mpc = "construct"
    /\ todo = {}
    /\ spawn_shards([s \in diff_shards(DOMAIN cand, shards) |-> cand[s]])
    /\ mpc' = "tick"
    /\ cand' = <<>>
    /\ UNCHANGED <<bvars, cvars, kvars, hvars, gvars, lvars, config, stream, sclosed, checkpoints, main, handed, served,
                   failed, budget, listed, quota, todo>>

\* ------------------------------------------------------------------------
\* The service
\* ------------------------------------------------------------------------

\* A producer puts a record on shard s.
PutRecord(s) ==
    /\ s \in listed
    /\ ~sclosed[s]
    /\ quota > 0
    /\ quota' = quota - 1
    /\ stream' = [stream EXCEPT ![s] = @ + 1]
    /\ UNCHANGED <<bvars, cvars, kvars, hvars, gvars, lvars, config, sclosed, checkpoints, shards, main, pc, iterator, closed,
                   bucket, outcome, error, restarted, handed, served, failed, budget,
                   listed, mpc, todo, cand>>

\* The stream is resharded: shard s is closed, and a get_records that reaches
\* its end returns no NextShardIterator.
CloseShard(s) ==
    /\ s \in listed
    /\ ~sclosed[s]
    /\ sclosed' = [sclosed EXCEPT ![s] = TRUE]
    /\ UNCHANGED <<bvars, cvars, kvars, hvars, gvars, lvars, config, stream, checkpoints, shards, main, pc, iterator, closed,
                   bucket, outcome, error, restarted, handed, served, failed, budget,
                   listed, quota, mpc, todo, cand>>

\* ------------------------------------------------------------------------
\* bucket.py: an InMemoryBucket and its caller
\* ------------------------------------------------------------------------

\* What the caller holds before any get call.
NoBatch ==
    [raised |-> FALSE, data |-> <<>>, last_sequence_number |-> None,
     last_arrival_timestamp |-> None, own |-> FALSE]

\* The tuple a get call returned, as the caller holds it.
Batch(g) ==
    [raised |-> g.raised, data |-> g.data,
     last_sequence_number |-> g.last_sequence_number,
     last_arrival_timestamp |-> g.last_arrival_timestamp, own |-> g.own]

BucketInit ==
    /\ ubucket = InMemoryBucket
    /\ ubatch = NoBatch
    /\ ucall = "none"
    /\ ucalls = 0

\* bucket.add(record). A batch that is the bucket's own list sees the record.
BucketAdd(n) ==
    /\ ucalls < MaxCalls
    /\ ucalls' = ucalls + 1
    /\ ucall' = "add"
    /\ ubucket' = add(ubucket, KinesisRecord("shardId-0", n))
    /\ ubatch' = IF ubatch.own THEN [ubatch EXCEPT !.data = ubucket'.data] ELSE ubatch
    /\ UNCHANGED <<wvars, cvars, kvars, hvars, gvars>>

\* bucket.get(force)
BucketGet(force) ==
    LET g == get(ubucket, force)
    IN  /\ ucalls < MaxCalls
        /\ ucalls' = ucalls + 1
        /\ ucall' = IF force THEN "get(True)" ELSE "get(False)"
        /\ ubucket' = g.bucket
        /\ ubatch' = Batch(g)
        /\ UNCHANGED <<wvars, cvars, kvars, hvars, gvars>>

\* bucket.flush(): del self.__data[:] empties the list in place, so a batch
\* that is the bucket's own list is emptied with it.
BucketFlush ==
    /\ ucalls < MaxCalls
    /\ ucalls' = ucalls + 1
    /\ ucall' = "flush"
    /\ ubucket' = flush(ubucket)
    /\ ubatch' = IF ubatch.own THEN [ubatch EXCEPT !.data = ubucket'.data] ELSE ubatch
    /\ UNCHANGED <<wvars, cvars, kvars, hvars, gvars>>

\* ------------------------------------------------------------------------
\* checkpointer.py: InMemoryCheckpointer, FileCheckpointer and their callers
\* ------------------------------------------------------------------------

\* The order in which the keys of a dict are written (any fixed order: the
\* reader does not depend on it).
ShardOrder == <<"shardId-0", "shardId-1">>

\* A piece of the JSON text of an object: a brace, or one "key": value member.
Token(t, k, v) == [t |-> t, k |-> k, v |-> v]

\* json.dumps(self._checkpoints).encode(): the text written to the file.
json_dumps(cp) ==
    LET keys == SelectSeq(ShardOrder, LAMBDA k : k \in DOMAIN cp)
    IN  <<Token("{", "", None)>>
        \o [i \in 1..Len(keys) |-> Token("member", keys[i], cp[keys[i]])]
        \o <<Token("}", "", None)>>

\* json.load(f): the dict of a complete text (a later member of a key wins);
\* JSONDecodeError on an empty or cut text.
json_load(text) ==
    IF Len(text) < 2 \/ Head(text).t # "{" \/ Last(text).t # "}"
       \/ \E i \in 2..(Len(text) - 1) : text[i].t # "member"
    THEN [raised |-> TRUE, value |-> <<>>]
    ELSE LET at(k) == {i \in 2..(Len(text) - 1) : text[i].k = k}
             keys == {text[i].k : i \in 2..(Len(text) - 1)}
         IN  [raised |-> FALSE,
              value |-> [k \in keys |->
                           text[CHOOSE i \in at(k) : \A j \in at(k) : j <= i].v]]

\* Mutant of FileCheckpointer: the state file is not read.
FileCheckpointer_ignoring_file(f) == [raised |-> FALSE, checkpoints |-> <<>>]

\* FileCheckpointer.__init__: self._checkpoints of a store built on file f,
\* or that the constructor raised.
FileCheckpointer(f) ==
    IF f.exists
    THEN [raised |-> json_load(f.text).raised, checkpoints |-> json_load(f.text).value]
    ELSE [raised |-> FALSE, checkpoints |-> <<>>]

\* Mutant of get_checkpoints: the dict itself is returned.
get_checkpoints_returning_dict(cp) == [own |-> TRUE, map |-> cp]

\* InMemoryCheckpointer.get_checkpoints: self._checkpoints.copy()
get_checkpoints(cp) == [own |-> FALSE, map |-> cp]

\* Mutant of yields: the greenlets switch at every statement.
yields_anywhere(position) == TRUE

\* Whether a greenlet at this position of FileCheckpointer.checkpoint lets
\* another greenlet run: lines 55-58 hold no wire call and no gevent.sleep
\* (the builtin open and file.write block), so it does only outside the call.
yields(position) == position = "idle"

\* The greenlet of shard s is the one that runs.
CanRun(s) == alive /\ \A t \in ShardIds \ {s} : yields(cpos[t])

NoSnapshot == [taken |-> FALSE, own |-> FALSE, map |-> <<>>]

NoFile == [exists |-> FALSE, text |-> <<>>]

\* dict item deletion.
del_item(cp, k) == [j \in DOMAIN cp \ {k} |-> cp[j]]

\* An InMemoryCheckpointer just constructed, nothing called.
StoreInit ==
    /\ variant = "memory"
    /\ store = <<>>
    /\ file = NoFile
    /\ snapshot = NoSnapshot
    /\ cpos = [s \in ShardIds |-> "idle"]
    /\ alive = TRUE
    /\ latest = [s \in ShardIds |-> None]
    /\ scalls = 0

\* checkpoint(s, sequence) by the greenlet of shard s. InMemoryCheckpointer:
\* line 41, and the call returns. FileCheckpointer: line 56.
StoreCheckpoint(s, sequence) ==
    /\ CanRun(s)
    /\ cpos[s] = "idle"
    /\ scalls < MaxCheckpointCalls
    /\ scalls' = scalls + 1
    /\ store' = checkpoint(store, s, sequence)
    /\ snapshot' = IF snapshot.own THEN [snapshot EXCEPT !.map = store'] ELSE snapshot
    /\ IF variant = "file"
       THEN /\ cpos' = [cpos EXCEPT ![s] = "open"]
            /\ UNCHANGED latest
       ELSE /\ latest' = [latest EXCEPT ![s] = sequence]
            /\ UNCHANGED cpos
    /\ UNCHANGED <<wvars, bvars, kvars, hvars, gvars, variant, file, alive>>

\* FileCheckpointer.checkpoint, line 57: open(self.file, 'wb') truncates.
StoreOpen(s) ==
    /\ CanRun(s)
    /\ cpos[s] = "open"
    /\ cpos' = [cpos EXCEPT ![s] = "write"]
    /\ file' = [exists |-> TRUE, text |-> <<>>]
    /\ UNCHANGED <<wvars, bvars, kvars, hvars, gvars, variant, store, snapshot, alive, latest, scalls>>

\* FileCheckpointer.checkpoint, line 58 and the end of the with block: the
\* whole mapping is written, the file is closed, the call returns.
StoreWrite(s) ==
    /\ CanRun(s)
    /\ cpos[s] = "write"
    /\ cpos' = [cpos EXCEPT ![s] = "idle"]
    /\ file' = [exists |-> TRUE, text |-> json_dumps(store)]
    /\ latest' = [latest EXCEPT ![s] = get_checkpoint(store, s)]
    /\ UNCHANGED <<wvars, bvars, kvars, hvars, gvars, variant, store, snapshot, alive, scalls>>

\* A caller takes get_checkpoints().
StoreGetCheckpoints ==
    /\ alive
    /\ \A t \in ShardIds : yields(cpos[t])
    /\ snapshot' = [taken |-> TRUE, own |-> get_checkpoints(store).own,
                    map |-> get_checkpoints(store).map]
    /\ UNCHANGED <<wvars, bvars, kvars, hvars, gvars, variant, store, file, cpos, alive, latest, scalls>>

\* The caller assigns an item of the dict it was given.
SnapshotSet(k, v) ==
    /\ alive
    /\ \A t \in ShardIds : yields(cpos[t])
    /\ snapshot.taken
    /\ snapshot' = [snapshot EXCEPT !.map = checkpoint(@, k, v)]
    /\ store' = IF snapshot.own THEN snapshot'.map ELSE store
    /\ UNCHANGED <<wvars, bvars, kvars, hvars, gvars, variant, file, cpos, alive, latest, scalls>>

\* The caller deletes an item of the dict it was given.
SnapshotDel(k) ==
    /\ alive
    /\ \A t \in ShardIds : yields(cpos[t])
    /\ snapshot.taken
    /\ k \in DOMAIN snapshot.map
    /\ snapshot' = [snapshot EXCEPT !.map = del_item(@, k)]
    /\ store' = IF snapshot.own THEN snapshot'.map ELSE store
    /\ UNCHANGED <<wvars, bvars, kvars, hvars, gvars, variant, file, cpos, alive, latest, scalls>>

\* The process of a FileCheckpointer dies. Inside line 58 any part of the
\* text may have reached the file.
Crash ==
    /\ variant = "file"
    /\ alive
    /\ alive' = FALSE
    /\ cpos' = [s \in ShardIds |-> "idle"]
    /\ snapshot' = NoSnapshot
    /\ IF \E s \in ShardIds : cpos[s] = "write"
       THEN \E n \in 0..Len(json_dumps(store)) :
                file' = [exists |-> TRUE, text |-> SubSeq(json_dumps(store), 1, n)]
       ELSE UNCHANGED file
    /\ UNCHANGED <<wvars, bvars, kvars, hvars, gvars, variant, store, latest, scalls>>

\* A new process builds FileCheckpointer(file); nothing is built when the
\* constructor raises.
StoreReload ==
    /\ ~alive
    /\ ~FileCheckpointer(file).raised
    /\ alive' = TRUE
    /\ store' = FileCheckpointer(file).checkpoints
    /\ latest' = [s \in ShardIds |-> get_checkpoint(store', s)]
    /\ UNCHANGED <<wvars, bvars, kvars, hvars, gvars, variant, file, snapshot, cpos, scalls>>

\* ------------------------------------------------------------------------
\* streams.py: KinesisShard.__get_iterator and its callers
\* ------------------------------------------------------------------------

\* No call of __get_iterator is made.
CursorIdle ==
    /\ uargs = [shard |-> "shardId-0", iterator |-> None, has_iterator |-> FALSE, sequence_number |-> None,
                has_ts |-> FALSE, overhang |-> FALSE]
    /\ ucursor = [called |-> FALSE, request |-> NoRequest, iterator |-> None]

\* The arguments the callers pass: __init__ passes the committed sequence
\* number or None, dispatch the continuation cursor and the arrival timestamp
\* of the last fetched record or None. The clock decides overhang.
CursorInit ==
    /\ uargs \in [shard : ShardIds, iterator : 0..MaxSeq, has_iterator : BOOLEAN,
                   sequence_number : {None} \cup 1..MaxSeq,
                   has_ts : BOOLEAN, overhang : BOOLEAN]
    /\ ucursor = [called |-> FALSE, request |-> NoRequest, iterator |-> None]

\* One call of __get_iterator on the shard object.
CursorGet ==
    /\ ~ucursor.called
    /\ ucursor' = [called |-> TRUE,
                   request |-> iterator_request(uargs.has_iterator, uargs.sequence_number,
                                                uargs.has_ts, uargs.overhang),
                   iterator |-> get_iterator(uargs.shard, uargs.iterator, uargs.has_iterator,
                                             uargs.sequence_number, uargs.has_ts,
                                             uargs.overhang)]
    /\ UNCHANGED <<wvars, bvars, cvars, hvars, gvars, uargs>>

\* ------------------------------------------------------------------------
\* consumer.py, streams.py: the hooks of one poll cycle
\* ------------------------------------------------------------------------

\* The hooks an application registers, named by what they do. A transform
\* hook returns a new list without the first record (drop), a new list that
\* starts with a record of its own (mark), the list it was passed after
\* emptying it in place (clear), or raises (fail).
TransformHooks == {"drop", "mark", "clear", "fail"}

\* An after-consume hook returns None (quiet), returns a value (loud) or
\* raises (broken).
AfterConsumeHooks == {"quiet", "loud", "broken"}

\* The lists of at most n distinct elements of S.
DistinctSeqs(S, n) ==
    {q \in UNION {[1..k -> S] : k \in 0..n} :
        \A i \in DOMAIN q : \A j \in DOMAIN q : i # j => q[i] # q[j]}

\* The record the hook "mark" puts in front.
Marker == KinesisRecord("mark", None)

\* One call of a transform hook on the list data: whether it raised, the
\* list it returned and whether that is the list it was passed.
transform_hook(func, data) ==
    CASE func = "drop" ->
             [raised |-> FALSE, same |-> FALSE,
              list |-> IF data = <<>> THEN <<>> ELSE Tail(data)]
      [] func = "mark" -> [raised |-> FALSE, same |-> FALSE, list |-> <<Marker>> \o data]
      [] func = "clear" -> [raised |-> FALSE, same |-> TRUE, list |-> <<>>]
      [] OTHER -> [raised |-> TRUE, same |-> TRUE, list |-> data]

\* What a call of an after-consume hook returns.
after_consume_hook(func) == IF func = "loud" THEN "value" ELSE "None"

\* reversed(list)
reversed(funcs) == [i \in 1..Len(funcs) |-> funcs[Len(funcs) + 1 - i]]

\* Mutant of rebind: the result of a hook is dropped.
rebind_dropping(data, result) == data

\* Consumer.do_transform, line 201, and streams.py line 138: `data = ...`
\* binds the name to what the call returned.
rebind(data, result) == result

\* Mutant of checkpoint_value: the sequence number of the last record of the
\* list the hooks left.
checkpoint_value_of_output(last_sequence_number, data) ==
    IF data = <<>> THEN None ELSE Last(data).sequence_number

\* streams.py lines 161-162: the value passed to checkpointer.checkpoint.
checkpoint_value(last_sequence_number, data) == last_sequence_number

\* No hook is registered and no cycle runs.
HooksIdle ==
    /\ transform_funcs = <<>>
    /\ after_consume_funcs = <<>>
    /\ hbucket = InMemoryBucket
    /\ hforce = FALSE
    /\ hpc = "off"
    /\ hdata = [list |-> <<>>, own |-> FALSE]
    /\ hlast = [last_sequence_number |-> None, last_arrival_timestamp |-> None]
    /\ htodo = <<>>
    /\ hcalls = <<>>
    /\ hdrained = <<>>
    /\ hwritten = <<>>

\* The hooks were registered with Consumer.transform and
\* Consumer.after_consume; the worker of shardId-0 has appended the fetched
\* records to its bucket and is about to drain it.
HooksInit ==
    /\ transform_funcs \in DistinctSeqs(TransformHooks, MaxHooks)
    /\ after_consume_funcs \in DistinctSeqs(AfterConsumeHooks, MaxHooks)
    /\ hbucket \in {[data |-> Records("shardId-0", 0, n), count |-> c] :
                       n \in 0..MaxBuffered, c \in 0..(BUCKET_COUNT_LIMIT - 1)}
    /\ hforce \in BOOLEAN
    /\ hpc = "drain"
    /\ hdata = [list |-> <<>>, own |-> FALSE]
    /\ hlast = [last_sequence_number |-> None, last_arrival_timestamp |-> None]
    /\ htodo = <<>>
    /\ hcalls = <<>>
    /\ hdrained = <<>>
    /\ hwritten = <<>>

\* Where the cycle goes when do_transform has returned: into the loop of
\* do_after_consume, or to the finally block when no hook is registered.
AfterTransforms ==
    IF after_consume_funcs = <<>>
    THEN [hpc |-> "finally", htodo |-> <<>>]
    ELSE [hpc |-> "after", htodo |-> reversed(after_consume_funcs)]

\* The arguments of a hook call, with what the call did.
HookCall(phase, func, raised, result) ==
    [phase |-> phase, hook |-> func, data |-> hdata.list, shard_id |-> "shardId-0",
     last_sequence_number |-> hlast.last_sequence_number,
     last_arrival_timestamp |-> hlast.last_arrival_timestamp,
     raised |-> raised, result |-> result]

\* streams.py lines 129-142: the bucket is drained; a non-empty batch enters
\* do_transform. get(True) on an empty bucket raises out of dispatch.
HookCycleDrain ==
    LET g == get(hbucket, hforce)
        first == IF transform_funcs = <<>>
                 THEN AfterTransforms
                 ELSE [hpc |-> "transform", htodo |-> reversed(transform_funcs)]
    IN  /\ hpc = "drain"
        /\ hbucket' = g.bucket
        /\ IF g.raised \/ Len(g.data) = 0
           THEN /\ hpc' = "done"
                /\ UNCHANGED <<hdata, hlast, htodo, hdrained>>
           ELSE /\ hpc' = first.hpc
                /\ htodo' = first.htodo
                /\ hdata' = [list |-> g.data, own |-> g.own]
                /\ hlast' = [last_sequence_number |-> g.last_sequence_number,
                             last_arrival_timestamp |-> g.last_arrival_timestamp]
                /\ hdrained' = g.data
        /\ UNCHANGED <<wvars, bvars, cvars, kvars, gvars, transform_funcs,
                       after_consume_funcs, hforce, hcalls, hwritten>>

\* Consumer.do_transform, lines 200-206: one pass of the loop calls one
\* hook. A hook that changes the bucket's own list in place changes the
\* bucket; an exception leaves the loop for the finally block of dispatch.
HookTransform ==
    LET func == Head(htodo)
        r == transform_hook(func, hdata.list)
        then == IF Tail(htodo) = <<>>
                THEN AfterTransforms
                ELSE [hpc |-> "transform", htodo |-> Tail(htodo)]
    IN  /\ hpc = "transform"
        /\ hcalls' = Append(hcalls, HookCall("transform", func, r.raised, r.list))
        /\ IF r.raised
           THEN /\ hpc' = "finally"
                /\ htodo' = <<>>
                /\ UNCHANGED <<hdata, hbucket>>
           ELSE /\ hpc' = then.hpc
                /\ htodo' = then.htodo
                /\ hdata' = rebind(hdata, [list |-> r.list, own |-> hdata.own /\ r.same])
                /\ hbucket' = IF hdata.own /\ r.same
                              THEN [hbucket EXCEPT !.data = r.list]
                              ELSE hbucket
        /\ UNCHANGED <<wvars, bvars, cvars, kvars, gvars, transform_funcs,
                       after_consume_funcs, hforce, hlast, hdrained, hwritten>>

\* Consumer.do_after_consume, lines 215-221: one pass of the loop calls one
\* hook; what it returns is not bound to anything.
HookAfterConsume ==
    LET func == Head(htodo)
        raised == func = "broken"
    IN  /\ hpc = "after"
        /\ hcalls' = Append(hcalls, HookCall("after", func, raised, after_consume_hook(func)))
        /\ hpc' = IF raised \/ Tail(htodo) = <<>> THEN "finally" ELSE "after"
        /\ htodo' = IF raised THEN <<>> ELSE Tail(htodo)
        /\ UNCHANGED <<wvars, bvars, cvars, kvars, gvars, transform_funcs,
                       after_consume_funcs, hbucket, hforce, hdata, hlast, hdrained,
                       hwritten>>

\* streams.py lines 159-162: the finally block flushes the bucket (its own
\* list is emptied in place) and checkpoints.
HookFinally ==
    /\ hpc = "finally"
    /\ hpc' = "done"
    /\ hbucket' = flush(hbucket)
    /\ hdata' = IF hdata.own THEN [hdata EXCEPT !.list = <<>>] ELSE hdata
    /\ hwritten' = Append(hwritten, checkpoint_value(hlast.last_sequence_number, hdata.list))
    /\ UNCHANGED <<wvars, bvars, cvars, kvars, gvars, transform_funcs,
                   after_consume_funcs, hforce, hlast, htodo, hcalls, hdrained>>

\* ------------------------------------------------------------------------
\* config.py: Config.get_namespace
\* ------------------------------------------------------------------------

\* Strings are lists of characters over Alphabet.
Alphabet == {"A", "a", "B"}

\* str.lower, character by character.
lower(key) ==
    [i \in DOMAIN key |-> CASE key[i] = "A" -> "a"
                             [] key[i] = "B" -> "b"
                             [] OTHER -> key[i]]

\* str.startswith
startswith(k, namespace) ==
    Len(namespace) <= Len(k) /\ SubSeq(k, 1, Len(namespace)) = namespace

\* Mutant of namespace_key: the key is always lower-cased.
namespace_key_lowered(k, namespace, lowercase, trim_namespace) ==
    lower(IF trim_namespace THEN SubSeq(k, Len(namespace) + 1, Len(k)) ELSE k)

\* Lines 82-87: the key of the result for the configuration key k.
namespace_key(k, namespace, lowercase, trim_namespace) ==
    LET key == IF trim_namespace THEN SubSeq(k, Len(namespace) + 1, Len(k)) ELSE k
    IN  IF lowercase THEN lower(key) ELSE key

\* rv[key] = v on a dict
set_item(rv, key, v) == [x \in DOMAIN rv \cup {key} |-> IF x = key THEN v ELSE rv[x]]

\* Lines 79-88: the loop over self.items(), from the dict rv on.
RECURSIVE namespace_loop(_, _, _, _, _)
namespace_loop(items, rv, namespace, lowercase, trim_namespace) ==
    IF items = <<>>
    THEN rv
    ELSE LET k == Head(items)[1]
             v == Head(items)[2]
         IN  namespace_loop(
                 Tail(items),
                 IF startswith(k, namespace)
                 THEN set_item(rv, namespace_key(k, namespace, lowercase, trim_namespace), v)
                 ELSE rv,
                 namespace, lowercase, trim_namespace)

\* Config.get_namespace on the configuration with the items c.
get_namespace(c, namespace, lowercase, trim_namespace) ==
    namespace_loop(c, <<>>, namespace, lowercase, trim_namespace)

\* The configuration keys: the strings of two characters.
Keys == {<<a, b>> : a \in Alphabet, b \in Alphabet}

\* The namespaces asked for: the empty string, one character, a whole key.
Namespaces == {<<>>} \cup {<<a>> : a \in Alphabet} \cup Keys

\* The configurations of at most MaxItems items, in the iteration order of
\* the dict: the keys are distinct, the value of an item tells it from the
\* others.
Configs ==
    {[i \in 1..Len(ks) |-> <<ks[i], i>>] : ks \in DistinctSeqs(Keys, MaxItems)}

\* No configuration is queried.
ConfigIdle ==
    /\ cfg = <<>>
    /\ gargs = [namespace |-> <<>>, lowercase |-> TRUE, trim_namespace |-> TRUE]
    /\ grv = [called |-> FALSE, rv |-> <<>>]

\* A configuration and the arguments of one call.
ConfigInit ==
    /\ cfg \in Configs
    /\ gargs \in [namespace : Namespaces, lowercase : BOOLEAN, trim_namespace : BOOLEAN]
    /\ grv = [called |-> FALSE, rv |-> <<>>]

\* One call of Config.get_namespace.
GetNamespace ==
    /\ ~grv.called
    /\ grv' = [called |-> TRUE,
               rv |-> get_namespace(cfg, gargs.namespace, gargs.lowercase,
                                    gargs.trim_namespace)]
    /\ UNCHANGED <<wvars, bvars, cvars, kvars, hvars, cfg, gargs>>

\* ------------------------------------------------------------------------
\* Specification
\* ------------------------------------------------------------------------

\* The state after Consumer.__init__ (an empty InMemoryCheckpointer, no shard
\* tracked, no greenlet), for a stream with the shard ids `ids`.
Start(configs, ids, n, m) ==
    /\ config \in configs
    /\ stream = [s \in ShardIds |-> 0]
    /\ sclosed = [s \in ShardIds |-> FALSE]
    /\ checkpoints = <<>>
    /\ shards = {}
    /\ main = "start"
    /\ pc = [s \in ShardIds |-> "none"]
    /\ iterator = [s \in ShardIds |-> 0]
    /\ closed = [s \in ShardIds |-> FALSE]
    /\ bucket = [s \in ShardIds |-> InMemoryBucket]
    /\ outcome = [s \in ShardIds |-> "none"]
    /\ error = [s \in ShardIds |-> "none"]
    /\ restarted = [s \in ShardIds |-> FALSE]
    /\ handed = [s \in ShardIds |-> <<>>]
    /\ served = [s \in ShardIds |-> {}]
    /\ failed = [s \in ShardIds |-> {}]
    /\ budget = n
    /\ listed = ids
    /\ quota = m
    /\ mpc = "off"
    /\ todo = {}
    /\ cand = <<>>
    /\ signalled = FALSE
    /\ escaped = "none"
    /\ torn = <<>>
    /\ BucketInit
    /\ StoreInit
    /\ CursorIdle
    /\ HooksIdle
    /\ ConfigIdle

\* A stream of one shard, every configuration.
Init ==
    Start([SHARD_ITERATOR_TYPE : IteratorTypes, PROTRACTOR_ENABLE : BOOLEAN],
          {"shardId-0"}, MaxFetches, MaxSeq)

\* A stream of two shards, the default configuration.
InitShards ==
    Start({[SHARD_ITERATOR_TYPE |-> "TRIM_HORIZON", PROTRACTOR_ENABLE |-> FALSE]},
          ShardIds, MaxFetchesShards, MaxSeqShards)

Next ==
    \/ \E status \in {"ACTIVE", "CREATING"} : \E D \in SUBSET listed : Dispatch(status, D)
    \/ \E D \in SUBSET listed : MonitorTick(D)
    \/ \E s \in ShardIds : MonitorConstruct(s)
    \/ MonitorSpawn
    \/ \E s \in ShardIds : FetchExpired(s)
    \/ \E s \in ShardIds : FetchThrottled(s)
    \/ \E s \in ShardIds : ThrottleWake(s)
    \/ \E s \in ShardIds : FetchClientError(s)
    \/ \E s \in ShardIds : \E n \in 0..SHARD_READ_LIMIT : \E overhang, hook_raises \in BOOLEAN :
           FetchRecords(s, n, overhang, hook_raises)
    \/ \E s \in ShardIds : Wake(s)
    \/ \E s \in ShardIds : PutRecord(s)
    \/ \E s \in ShardIds : CloseShard(s)

\* No consumer runs: the group's variables stay as Consumer.__init__ left
\* them, for a configuration of configs and stream tips of tips.
Constructed(configs, tips) ==
    /\ config \in configs
    /\ stream \in [ShardIds -> tips]
    /\ sclosed = [s \in ShardIds |-> FALSE]
    /\ checkpoints = <<>>
    /\ shards = {}
    /\ main = "start"
    /\ pc = [s \in ShardIds |-> "none"]
    /\ iterator = [s \in ShardIds |-> 0]
    /\ closed = [s \in ShardIds |-> FALSE]
    /\ bucket = [s \in ShardIds |-> InMemoryBucket]
    /\ outcome = [s \in ShardIds |-> "none"]
    /\ error = [s \in ShardIds |-> "none"]
    /\ restarted = [s \in ShardIds |-> FALSE]
    /\ handed = [s \in ShardIds |-> <<>>]
    /\ served = [s \in ShardIds |-> {}]
    /\ failed = [s \in ShardIds |-> {}]
    /\ budget = 0
    /\ listed = {}
    /\ quota = 0
    /\ mpc = "off"
    /\ todo = {}
    /\ cand = <<>>
    /\ signalled = FALSE
    /\ escaped = "none"
    /\ torn = <<>>

\* The default configuration and an empty stream.
NoConsumer ==
    Constructed({[SHARD_ITERATOR_TYPE |-> "TRIM_HORIZON", PROTRACTOR_ENABLE |-> FALSE]}, {0})

\* A new InMemoryBucket(BUCKET_SIZE_LIMIT, BUCKET_COUNT_LIMIT).
InitBucket ==
    NoConsumer /\ BucketInit /\ StoreInit /\ CursorIdle /\ HooksIdle /\ ConfigIdle

NextBucket ==
    \/ \E n \in 1..MaxRecord : BucketAdd(n)
    \/ \E force \in BOOLEAN : BucketGet(force)
    \/ BucketFlush

\* The mappings a state file holds when the store is constructed.
InitialMappings == UNION {[D -> 1..MaxSequence] : D \in SUBSET ShardIds}

\* A new InMemoryCheckpointer, or a new FileCheckpointer on a path with no
\* file or with the file an earlier store wrote.
InitStore ==
    /\ NoConsumer
    /\ BucketInit
    /\ CursorIdle
    /\ HooksIdle
    /\ ConfigIdle
    /\ variant \in {"memory", "file"}
    /\ file \in {NoFile} \cup
                IF variant = "file"
                THEN {[exists |-> TRUE, text |-> json_dumps(m)] : m \in InitialMappings}
                ELSE {}
    /\ store = FileCheckpointer(file).checkpoints
    /\ snapshot = NoSnapshot
    /\ cpos = [s \in ShardIds |-> "idle"]
    /\ alive = TRUE
    /\ latest = [s \in ShardIds |-> get_checkpoint(store, s)]
    /\ scalls = 0

NextStore ==
    \/ \E s \in ShardIds : \E sequence \in 1..MaxSequence : StoreCheckpoint(s, sequence)
    \/ \E s \in ShardIds : StoreOpen(s)
    \/ \E s \in ShardIds : StoreWrite(s)
    \/ StoreGetCheckpoints
    \/ \E k \in ShardIds : \E v \in 1..MaxSequence : SnapshotSet(k, v)
    \/ \E k \in ShardIds : SnapshotDel(k)
    \/ Crash
    \/ StoreReload

Spec == Init /\ [][Next]_vars

SpecBucket == InitBucket /\ [][NextBucket]_vars

SpecStore == InitStore /\ [][NextStore]_vars

SpecShards == InitShards /\ [][Next]_vars

\* The whole of Consumer.process on a stream of one shard: dispatch may raise,
\* a re-discovery call of the monitor may raise, SIGQUIT may arrive and the
\* join may return.
InitProcess ==
    Start({[SHARD_ITERATOR_TYPE |-> "TRIM_HORIZON", PROTRACTOR_ENABLE |-> FALSE]},
          {"shardId-0"}, MaxFetchesProcess, MaxSeqProcess)

NextProcess ==
    \/ Next
    \/ DispatchRaises
    \/ MonitorRaises
    \/ JoinReturns
    \/ Signal

SpecProcess == InitProcess /\ [][NextProcess]_vars

\* A stream of one shard with records enough for a fetch to find a bucket
\* just below its size limit and fill it with a full response.
InitBatch ==
    Start({[SHARD_ITERATOR_TYPE |-> "TRIM_HORIZON", PROTRACTOR_ENABLE |-> FALSE]},
          {"shardId-0"}, MaxFetchesBatch, MaxSeqBatch)

SpecBatch == InitBatch /\ [][Next]_vars

\* Every configuration, stream tip and argument list of __get_iterator.
InitCursor ==
    /\ Constructed([SHARD_ITERATOR_TYPE : IteratorTypes, PROTRACTOR_ENABLE : BOOLEAN],
                   0..MaxSeq)
    /\ BucketInit /\ StoreInit /\ HooksIdle /\ ConfigIdle
    /\ CursorInit

NextCursor == CursorGet

SpecCursor == InitCursor /\ [][NextCursor]_vars

\* One poll cycle from the drain on, for every registration of at most
\* MaxHooks hooks of each kind and every bucket of at most MaxBuffered records.
InitHooks ==
    /\ NoConsumer
    /\ BucketInit /\ StoreInit /\ CursorIdle /\ ConfigIdle
    /\ HooksInit

NextHooks ==
    \/ HookCycleDrain
    \/ HookTransform
    \/ HookAfterConsume
    \/ HookFinally

SpecHooks == InitHooks /\ [][NextHooks]_vars

\* Every configuration of at most MaxItems items and every argument list of
\* get_namespace.
InitConfig ==
    /\ NoConsumer
    /\ BucketInit /\ StoreInit /\ CursorIdle /\ HooksIdle
    /\ ConfigInit

NextConfig == GetNamespace

SpecConfig == InitConfig /\ [][NextConfig]_vars

\* ------------------------------------------------------------------------
\* Claims
\* ------------------------------------------------------------------------

\* C1: the successive values passed to checkpoint(shardId, .) never decrease
\* in the shard's sequence order, over poll cycles, aborts, closures and the
\* workers the monitor spawns.
C1_CheckpointMonotonic ==
    [][\A s \in ShardIds :
          get_checkpoint(checkpoints', s) >= get_checkpoint(checkpoints, s)]_vars

\* C2: the records handed to the hook chain of a shard, over all batches and
\* all workers of the shard, are in strictly increasing sequence order.
C2_HandedInOrder == \A s \in ShardIds : IsStrictlyIncreasing(handed[s])

\* The sequence numbers handed to the hooks of shard s in this step.
NewlyHanded(s) == {handed'[s][i] : i \in (Len(handed[s]) + 1)..Len(handed'[s])}

\* The exceptions that escape the poll loop of dispatch.
FatalErrors == {"ExpiredIteratorException", "TypeError", "HookError", "IndexError"}

\* The worker of shard s ends this step with an exception of a hook.
HookFailureStep(s) == pc[s] = "fetch" /\ pc'[s] = "exited" /\ error'[s] = "HookError"

\* C3: with lag-jump disabled, every record the stream served for a shard
\* with a sequence number <= the stored checkpoint has been handed to the hook
\* chain at least once.
C3_AtLeastOnce ==
    ~config.PROTRACTOR_ENABLE =>
        \A s \in ShardIds : \A n \in served[s] :
            n <= get_checkpoint(checkpoints, s) => n \in SeqToSet(handed[s])

\* C4: when a hook raises on a drained batch, the worker still flushes its
\* buffer and writes the checkpoint with the batch's last sequence number, and
\* (so) no record of that batch is handed to the hooks again.
C4_HookFailureCommitsNoRedelivery ==
    [][\A s \in ShardIds :
          /\ HookFailureStep(s) =>
                /\ bucket'[s].data = <<>>
                /\ get_checkpoint(checkpoints', s) = Last(handed'[s])
          /\ NewlyHanded(s) \cap failed[s] = {}]_vars

\* The first half of C4 alone: the commit is in the cleanup path.
CommitInCleanup ==
    [][\A s \in ShardIds :
          HookFailureStep(s) =>
              /\ bucket'[s] = InMemoryBucket
              /\ NewlyHanded(s) # {}
              /\ get_checkpoint(checkpoints', s) = Last(handed'[s])]_vars

C6_ClientErrorSkipsCycle ==
    [][\A s \in ShardIds :
          (pc[s] = "fetch" /\ outcome'[s] = "ClientError") =>
              /\ pc'[s] \in {"sleep", "fetch"}
              /\ bucket'[s] = bucket[s]
              /\ iterator'[s] = iterator[s]]_vars

\* C7: when a fetch raises throughput-exceeded, buffer, cursor and checkpoint
\* are unchanged and no hook is invoked; the worker sleeps once and its next
\* wire call is a fetch with the same cursor; it never aborts from throttling.
C7_ThrottleRetriesSameCursor ==
    [][\A s \in ShardIds :
          /\ outcome'[s] = "ProvisionedThroughputExceededException" =>
                /\ bucket'[s] = bucket[s]
                /\ iterator'[s] = iterator[s]
                /\ get_checkpoint(checkpoints', s) = get_checkpoint(checkpoints, s)
                /\ handed'[s] = handed[s]
                /\ closed'[s] = closed[s]
                /\ pc'[s] \in {"throttled", "fetch"}
          /\ (pc[s] = "throttled" /\ pc'[s] # "throttled") =>
                (pc'[s] = "fetch" /\ outcome'[s] = "ProvisionedThroughputExceededException")]_vars

C7_Witness ==
    \E s \in ShardIds :
        /\ outcome[s] = "ProvisionedThroughputExceededException"
        /\ pc[s] = "fetch"
        /\ bucket[s].data # <<>>
        /\ iterator[s] > 0

\* C8: when one shard's worker terminates, every other shard's worker and the
\* monitor keep running, and the other shards' buffers, cursors and
\* checkpoints are not changed by it.
C8_FailureIsolation ==
    [][\A s \in ShardIds :
          (pc[s] # "exited" /\ pc'[s] = "exited") =>
              /\ mpc' = mpc
              /\ \A t \in ShardIds \ {s} :
                    /\ pc'[t] = pc[t]
                    /\ bucket'[t] = bucket[t]
                    /\ iterator'[t] = iterator[t]
                    /\ closed'[t] = closed[t]
                    /\ get_checkpoint(checkpoints', t) = get_checkpoint(checkpoints, t)
                    /\ (t \in shards') = (t \in shards)]_vars

C8_Witness ==
    \E s \in ShardIds : \E t \in ShardIds \ {s} :
        /\ pc[s] = "exited"
        /\ error[s] \in FatalErrors
        /\ pc[t] \in {"fetch", "sleep", "throttled"}
        /\ bucket[t].data # <<>>
        /\ mpc # "off"

BufferedAtClosure(s) ==
    SequenceNumbers(bucket[s].data) \o [i \in 1..(stream[s] - iterator[s]) |-> iterator[s] + i]

\* C10: when a fetch response carries no continuation cursor and the buffer
\* (after appending) is non-empty, the worker hands all buffered records to
\* the hooks whatever the thresholds, checkpoints the last buffered sequence
\* number, and never fetches again.
C10_ClosureForceDrains ==
    [][\A s \in ShardIds :
          /\ (~closed[s] /\ closed'[s] /\ BufferedAtClosure(s) # <<>>) =>
                /\ handed'[s] = handed[s] \o BufferedAtClosure(s)
                /\ get_checkpoint(checkpoints', s) = Last(BufferedAtClosure(s))
                /\ bucket'[s].data = <<>>
          /\ closed'[s] => pc'[s] \in {"sleep", "exited"}]_vars

\* One record, fetched by the first poll together with the closure: the
\* bucket is below both thresholds when it is drained.
C10_Witness ==
    \E s \in ShardIds :
        /\ closed[s]
        /\ budget = MaxFetches - 1
        /\ handed[s] = <<1>>
        /\ get_checkpoint(checkpoints, s) = 1
        /\ 1 < BUCKET_SIZE_LIMIT /\ 1 < BUCKET_COUNT_LIMIT

\* A step that is a call get(force=False) on the bucket of SpecBucket.
NonForcedGetStep == ucalls' = ucalls + 1 /\ ucall' = "get(False)"

\* A step that is a call get(force=True) on the bucket of SpecBucket.
ForcedGetStep == ucalls' = ucalls + 1 /\ ucall' = "get(True)"

\* The caller was handed the empty batch, with no sequence number and no
\* timestamp.
EmptyBatch(batch) ==
    /\ ~batch.raised
    /\ batch.data = <<>>
    /\ batch.last_sequence_number = None
    /\ batch.last_arrival_timestamp = None

\* The caller was handed all the records of data, in insertion order, with
\* the sequence number and the arrival timestamp of the last one.
FullBatch(batch, data) ==
    /\ ~batch.raised
    /\ batch.data = data
    /\ batch.last_sequence_number = Last(data).sequence_number
    /\ batch.last_arrival_timestamp = Last(data).approximate_arrival_timestamp

\* C11, as claimed: with fewer than BUCKET_SIZE_LIMIT records buffered and
\* fewer than BUCKET_COUNT_LIMIT non-forced get calls made since the last
\* flush, get(force=False) returns the empty batch and leaves the records.
C11_BelowThresholdsEmpty ==
    [][(/\ NonForcedGetStep
        /\ Len(ubucket.data) < BUCKET_SIZE_LIMIT
        /\ ubucket.count < BUCKET_COUNT_LIMIT) =>
           /\ EmptyBatch(ubatch')
           /\ ubucket'.data = ubucket.data]_vars

\* C11, amended: the call counts itself. With fewer than BUCKET_SIZE_LIMIT
\* records buffered and fewer than BUCKET_COUNT_LIMIT non-forced get calls
\* since the last flush, this one included, get(force=False) returns the empty
\* batch, leaves the records and has counted one more poll.
C11_BelowThresholdsCountingCall ==
    [][(/\ NonForcedGetStep
        /\ Len(ubucket.data) < BUCKET_SIZE_LIMIT
        /\ ubucket.count + 1 < BUCKET_COUNT_LIMIT) =>
           /\ EmptyBatch(ubatch')
           /\ ubucket'.data = ubucket.data
           /\ ubucket'.count = ubucket.count + 1]_vars

C11_Witness ==
    /\ ucall = "get(False)"
    /\ ubucket.data # <<>>
    /\ Len(ubucket.data) < BUCKET_SIZE_LIMIT
    /\ ubucket.count < BUCKET_COUNT_LIMIT
    /\ EmptyBatch(ubatch)

\* C12: get(force=False) on a non-empty buffer that holds BUCKET_SIZE_LIMIT
\* records or more, or whose poll counter reaches BUCKET_COUNT_LIMIT, returns
\* all buffered records in insertion order with the sequence number and the
\* arrival timestamp of the last one; on an empty buffer it returns the empty
\* batch whatever the counters are.
C12_AtThresholdsFullBatch ==
    [][NonForcedGetStep =>
          /\ (/\ ubucket.data # <<>>
              /\ \/ Len(ubucket.data) >= BUCKET_SIZE_LIMIT
                 \/ ubucket.count + 1 >= BUCKET_COUNT_LIMIT) =>
                FullBatch(ubatch', ubucket.data)
          /\ ubucket.data = <<>> => EmptyBatch(ubatch')]_vars

\* A batch of the size limit with records out of sequence order, drained at
\* the first poll.
C12_Witness ==
    /\ ucall = "get(False)"
    /\ Len(ubatch.data) >= BUCKET_SIZE_LIMIT
    /\ ubucket.count < BUCKET_COUNT_LIMIT
    /\ Head(ubatch.data).sequence_number > Last(ubatch.data).sequence_number
    /\ ubatch.last_sequence_number = Last(ubatch.data).sequence_number

\* C13: get(force=True) never fails: it returns all buffered records with the
\* last one's sequence number and timestamp, on an empty buffer the empty
\* batch with no sequence number and no timestamp, and it leaves the poll
\* counter alone.
C13_ForcedGetNeverFails ==
    [][ForcedGetStep =>
          /\ ~ubatch'.raised
          /\ ubucket.data # <<>> => FullBatch(ubatch', ubucket.data)
          /\ ubucket.data = <<>> => EmptyBatch(ubatch')
          /\ ubucket'.count = ubucket.count]_vars

\* C14: flush() puts the buffer back in the state of a new buffer (no record,
\* poll counter zero), so that what follows behaves as on a new buffer; a get
\* call never clears the records.
C14_FlushResets ==
    [][/\ (ucalls' = ucalls + 1 /\ ucall' = "flush") => ubucket' = InMemoryBucket
       /\ (NonForcedGetStep \/ ForcedGetStep) => ubucket'.data = ubucket.data]_vars

\* A flush after polls that were counted and a batch that was returned.
C14_Witness ==
    /\ ucall = "flush"
    /\ ubucket = InMemoryBucket
    /\ ubatch.last_sequence_number # None
    /\ ucalls >= BUCKET_COUNT_LIMIT + 2

\* No greenlet is inside FileCheckpointer.checkpoint: every call has returned.
AllReturned == \A s \in ShardIds : cpos[s] = "idle"

\* C15: get_checkpoint(id) returns the sequence of the most recent
\* checkpoint(id, .) call, or None if there was none (both variants); a
\* checkpoint call for one shard id leaves the entry of every other id as it
\* was.
C15_MapSemantics ==
    [][/\ (alive' /\ \A s \in ShardIds : cpos'[s] = "idle") =>
              \A s \in ShardIds : get_checkpoint(store', s) = latest'[s]
       /\ \A s \in ShardIds :
              (scalls' = scalls + 1 /\ get_checkpoint(store', s) # get_checkpoint(store, s)) =>
                  \A k \in ShardIds \ {s} :
                      get_checkpoint(store', k) = get_checkpoint(store, k)]_vars

\* Both shard ids checkpointed by calls that returned, one of them twice.
C15_Witness ==
    /\ alive
    /\ AllReturned
    /\ scalls = 3
    /\ DOMAIN store = ShardIds
    /\ \E s \in ShardIds : \E k \in ShardIds : store[s] # store[k]
    /\ \A s \in ShardIds : latest[s] = store[s]

\* C16: the dict get_checkpoints returned is a snapshot: a change the caller
\* makes to it changes nothing in the store, and a later checkpoint call
\* changes nothing in it.
C16_SnapshotIsolated ==
    [][/\ (alive' /\ snapshot' # snapshot) => store' = store
       /\ scalls' # scalls => snapshot' = snapshot]_vars

\* The caller's dict and the store went different ways: the caller deleted
\* an entry, the store took a checkpoint.
C16_Witness ==
    /\ alive
    /\ snapshot.taken
    /\ scalls > 0
    /\ \E k \in DOMAIN store : k \notin DOMAIN snapshot.map
    /\ \E k \in DOMAIN store \cap DOMAIN snapshot.map : store[k] # snapshot.map[k]

\* C17: once the checkpoint calls of a FileCheckpointer have returned, a new
\* FileCheckpointer built on the same file holds the same mapping as the
\* store; built on a path with no file it holds the empty mapping.
C17_DurableRoundTrip ==
    /\ (variant = "file" /\ alive /\ AllReturned) =>
           /\ ~FileCheckpointer(file).raised
           /\ FileCheckpointer(file).checkpoints = store
    /\ ~file.exists => FileCheckpointer(file).checkpoints = <<>>

\* Calls for both shard ids have returned and the file holds their text.
C17_Witness ==
    /\ variant = "file"
    /\ alive
    /\ AllReturned
    /\ scalls >= 2
    /\ DOMAIN store = ShardIds
    /\ file.exists
    /\ Len(file.text) = 4

\* C18: after a crash inside a checkpoint call of the FileCheckpointer, the
\* file can be loaded and holds, for every shard that had a durable entry,
\* its previous or its new sequence.
C18_CrashSafe ==
    (variant = "file" /\ ~alive) =>
        /\ ~FileCheckpointer(file).raised
        /\ \A s \in ShardIds :
               latest[s] # None =>
                   get_checkpoint(FileCheckpointer(file).checkpoints, s)
                       \in {latest[s], get_checkpoint(store, s)}

\* C19: the checkpoint calls of the shard greenlets on one FileCheckpointer
\* exclude each other from the update of the mapping to the end of its write,
\* and once all have returned the file holds the latest sequence of every
\* shard.
C19_NoLostUpdate ==
    /\ Cardinality({s \in ShardIds : cpos[s] # "idle"}) <= 1
    /\ (variant = "file" /\ alive /\ AllReturned /\ file.exists) =>
           \A s \in ShardIds :
               get_checkpoint(FileCheckpointer(file).checkpoints, s) = latest[s]

\* The calls of both greenlets have returned and the file holds the latest
\* sequence of each.
C19_Witness ==
    /\ variant = "file"
    /\ alive
    /\ AllReturned
    /\ scalls = MaxCheckpointCalls
    /\ latest = [s \in ShardIds |-> IF s = "shardId-0" THEN 2 ELSE 1]
    /\ file.text = json_dumps(latest)

\* The greenlets that have been spawned and have not ended.
Running == {s \in ShardIds : pc[s] \in {"fetch", "sleep", "throttled"}}

\* C20: the diff of a monitor tick spawns one worker for each shard id that is
\* discovered and not tracked and adds these ids to the tracked set; no step
\* of the tick stops a running worker, changes its state or removes an id from
\* the tracked set, also when a tracked shard is not in the discovery result.
C20_TickSpawnsDiff ==
    [][/\ (mpc = "construct" /\ mpc' = "tick") =>
              /\ shards' = shards \cup (DOMAIN cand \ shards)
              /\ \A s \in DOMAIN cand \ shards :
                     /\ pc'[s] = "fetch"
                     /\ bucket'[s] = InMemoryBucket
                     /\ iterator'[s] = cand[s].iterator
              /\ \A s \in ShardIds \ (DOMAIN cand \ shards) :
                     /\ pc'[s] = pc[s]
                     /\ bucket'[s] = bucket[s]
                     /\ iterator'[s] = iterator[s]
                     /\ closed'[s] = closed[s]
       /\ ((mpc = "tick" /\ mpc' = "construct") \/ (mpc = "construct" /\ todo' # todo)) =>
              /\ shards' = shards
              /\ pc' = pc
              /\ bucket' = bucket
              /\ iterator' = iterator]_vars

\* A tick has just spawned a worker for an id whose worker had ended, while
\* the worker of the other, tracked shard is in its poll loop with records.
C20_Witness ==
    \E s \in ShardIds : \E k \in ShardIds \ {s} :
        /\ mpc = "tick"
        /\ restarted[s]
        /\ pc[s] = "fetch"
        /\ outcome[s] = "none"
        /\ k \in shards
        /\ k \in Running
        /\ bucket[k].data # <<>>

\* The shards that have or had a worker greenlet.
Spawned == {s \in ShardIds : pc[s] # "none"}

\* C21: dispatch fails fast. When describe_stream reports a status other than
\* ACTIVE, the dispatch step spawns no worker, does not start the monitor and
\* the process exits, and nothing is spawned afterwards; when it reports
\* ACTIVE with the shards D, the same step spawns and tracks one worker for
\* exactly the shards of D and only then starts the monitor.
C21_DispatchFailsFast ==
    [][/\ \A D \in SUBSET listed :
              Dispatch("CREATING", D) =>
                  /\ main' = "exit"
                  /\ shards' = {}
                  /\ Spawned' = {}
                  /\ mpc' = "off"
       /\ \A D \in SUBSET listed :
              Dispatch("ACTIVE", D) =>
                  /\ main' = "join"
                  /\ shards' = D
                  /\ Spawned' = D
                  /\ \A s \in D : pc'[s] = "fetch"
                  /\ mpc' = "tick"
       /\ main = "exit" =>
              /\ main' = "exit"
              /\ shards' = {}
              /\ Spawned' = {}
              /\ mpc' = "off"]_vars

\* Both shards were discovered by dispatch on an ACTIVE stream, both workers
\* run and are tracked, and the monitor has started.
C21_Witness ==
    /\ main = "join"
    /\ shards = ShardIds
    /\ \A s \in ShardIds : pc[s] = "fetch" /\ handed[s] = <<>> /\ ~restarted[s]
    /\ mpc = "tick"
    /\ budget = MaxFetchesShards

\* C22: once dispatch has started the monitor, and as long as no termination
\* signal was delivered, the monitor is alive and will tick again, whatever
\* the workers do and whatever a re-discovery call returns or raises.
C22_MonitorKeepsRunning ==
    main = "join" /\ ~signalled => mpc \in {"tick", "construct"}

\* Lag was detected for the arguments of the call: lag detection is enabled,
\* a last arrival timestamp was passed and it is older than the threshold.
LagDetected == config.PROTRACTOR_ENABLE /\ uargs.has_ts /\ uargs.overhang

\* C23: the cursor __get_iterator returns follows the priority (1) lag
\* detected: a LATEST cursor is requested, whatever continuation cursor or
\* sequence number was passed; (2) else the continuation cursor is returned
\* unchanged and nothing is requested; (3) else a cursor after the committed
\* sequence number is requested; (4) else a cursor of the configured type is
\* requested. With lag detection disabled rule 1 never applies.
C23_CursorPriority ==
    LET s == uargs.shard
    IN  ucursor.called =>
            CASE LagDetected ->
                     /\ ucursor.request = [type |-> "LATEST", sequence_number |-> None]
                     /\ ucursor.iterator = stream[s]
              [] ~LagDetected /\ uargs.has_iterator ->
                     /\ ucursor.request = NoRequest
                     /\ ucursor.iterator = uargs.iterator
              [] ~LagDetected /\ ~uargs.has_iterator /\ uargs.sequence_number # None ->
                     /\ ucursor.request = [type |-> "AFTER_SEQUENCE_NUMBER",
                                           sequence_number |-> uargs.sequence_number]
                     /\ ucursor.iterator = uargs.sequence_number
              [] OTHER ->
                     /\ ucursor.request = [type |-> config.SHARD_ITERATOR_TYPE,
                                           sequence_number |-> None]
                     /\ ucursor.iterator =
                            IF config.SHARD_ITERATOR_TYPE = "LATEST"
                            THEN stream[s] ELSE TRIM_HORIZON

\* Lag was detected while a continuation cursor and a sequence number were
\* passed: the newest data was requested and the continuation cursor, which
\* is behind the tip, was dropped.
C23_Witness ==
    /\ ucursor.called
    /\ LagDetected
    /\ uargs.has_iterator
    /\ uargs.sequence_number # None
    /\ ucursor.request.type = "LATEST"
    /\ ucursor.iterator # uargs.iterator

\* A worker of shard s performs a fetch in this step.
FetchStep(s) == pc[s] = "fetch" /\ pc'[s] # "fetch"

\* The monitor performs a tick in this step.
TickStep == mpc = "tick" /\ mpc' = "construct"

\* C24: after the termination signal was delivered no worker performs a
\* further fetch and the monitor performs no further tick.
C24_SignalStopsAll ==
    [][signalled => ~TickStep /\ \A s \in ShardIds : ~FetchStep(s)]_vars

\* A call of a transform hook.
IsTransformCall(call) == call.phase = "transform"

\* The calls of transform hooks made so far in the cycle, in order.
TransformCalls == SelectSeq(hcalls, IsTransformCall)

C26_AfterConsumeGetsFinalBatch ==
    [][/\ \A i \in 1..Len(hcalls') :
              hcalls'[i].phase = "after" =>
                  /\ Len(TransformCalls') = Len(transform_funcs')
                  /\ \A j \in 1..Len(hcalls') :
                         hcalls'[j].phase = "transform" => j < i /\ ~hcalls'[j].raised
                  /\ hcalls'[i].data = IF TransformCalls' = <<>>
                                       THEN hdrained'
                                       ELSE Last(TransformCalls').result
                  /\ hcalls'[i].shard_id = "shardId-0"
                  /\ hcalls'[i].last_sequence_number = Last(hdrained').sequence_number
                  /\ hcalls'[i].last_arrival_timestamp =
                         Last(hdrained').approximate_arrival_timestamp
       /\ (hpc = "after" /\ hcalls' # hcalls) =>
              /\ UNCHANGED <<hdata, hlast, hbucket, hwritten>>
              /\ hpc' \in {"after", "finally"}]_vars

\* Two transform hooks changed the batch, then an after-consume hook that
\* returns a value was called with what they left, and the cycle went on to
\* its checkpoint.
C26_Witness ==
    /\ hpc = "done"
    /\ Len(TransformCalls) = 2
    /\ \E i \in 1..Len(hcalls) :
           /\ hcalls[i].phase = "after"
           /\ hcalls[i].hook = "loud"
           /\ hcalls[i].data # hdrained
           /\ hcalls[i].data # <<>>
    /\ hwritten # <<>>

\* C30: the value a cycle passes to checkpoint is the sequence number of the
\* last record of the batch it drained, whatever the transform hooks returned
\* or did to the list; it is written once, after the batch was passed to the
\* transform chain, and not at all in a cycle whose drain was empty.
C30_CheckpointOfDrainedBatch ==
    /\ Len(hwritten) <= 1
    /\ hwritten # <<>> =>
           /\ hpc = "done"
           /\ hdrained # <<>>
           /\ hwritten[1] = Last(hdrained).sequence_number
           /\ transform_funcs # <<>> =>
                  /\ TransformCalls # <<>>
                  /\ TransformCalls[1].data = hdrained
    /\ (hpc = "done" /\ hdrained = <<>>) => hwritten = <<>>
    /\ (hpc = "done" /\ hdrained # <<>>) => Len(hwritten) = 1

\* The transform chain returned a list whose last record is not the last
\* drained record; the checkpoint is that of the drained batch.
C30_Witness ==
    /\ hpc = "done"
    /\ Len(hdrained) = 2
    /\ TransformCalls # <<>>
    /\ ~Last(TransformCalls).raised
    /\ Last(TransformCalls).result # <<>>
    /\ Last(Last(TransformCalls).result).sequence_number # Last(hdrained).sequence_number
    /\ hwritten = <<Last(hdrained).sequence_number>>

\* process() has come to its end.
ProcessEnded == main \in {"exit", "returned"}

\* The number of calls of teardown hook h.
Invocations(h) == Cardinality({i \in 1..Len(torn) : torn[i].hook = h})

\* C27 as worded: at the end of process() every registered teardown hook was
\* invoked exactly once with the exception that escaped dispatch ("none" when
\* none did), on every exit path.
C27_TeardownOnceWithEscaped ==
    ProcessEnded =>
        /\ \A h \in SeqToSet(teardown_consumer_funcs) : Invocations(h) = 1
        /\ \A i \in 1..Len(torn) : torn[i].exc = escaped

\* C27, amended: teardown hooks are called only by the step that ends
\* process(), last registered first, each at most once and all of them
\* exactly once when none of them raises; each call receives the Exception
\* process() caught from dispatch, and the absent value when dispatch
\* returned or left through sys.exit() (SystemExit is not passed on).
C27_TeardownOnceWithCaught ==
    [][/\ torn' # torn => ~ProcessEnded /\ ProcessEnded'
       /\ ProcessEnded' =>
              LET n == Len(teardown_consumer_funcs)
                  calls == torn'
              IN  /\ Len(calls) \in 1..n
                  /\ \A i \in 1..Len(calls) :
                         /\ calls[i].hook = teardown_consumer_funcs[n + 1 - i]
                         /\ calls[i].exc = IF escaped' = "ClientError"
                                           THEN "ClientError" ELSE "none"
                         /\ calls[i].raised => i = Len(calls)
                  /\ (\A i \in 1..Len(calls) : ~calls[i].raised) => Len(calls) = n
       /\ ~ProcessEnded' => torn' = <<>>]_vars

\* The stream was not ACTIVE: dispatch left through sys.exit() and both
\* teardown hooks were called with the absent value.
C27_Witness ==
    /\ main = "exit"
    /\ escaped = "SystemExit"
    /\ Len(torn) = Len(teardown_consumer_funcs)
    /\ \A i \in 1..Len(torn) : torn[i].exc = "none" /\ ~torn[i].raised

\* C29: when the worker of a permanently closed shard ends, the supervisor
\* was asked once to stop tracking the shard and the removal from the tracked
\* set raised no error.
C29_RemovalRaisesNoError ==
    \A s \in ShardIds : closed[s] /\ pc[s] = "exited" => error[s] # "KeyError"

\* The items of the configuration whose key starts with the namespace.
Matching == {i \in 1..Len(cfg) : startswith(cfg[i][1], gargs.namespace)}

\* The result key the contract gives item i: the key without the namespace
\* when trim_namespace is set, lower-cased when lowercase is set.
ResultKey(i) ==
    LET k == cfg[i][1]
        trimmed == IF gargs.trim_namespace
                   THEN [j \in 1..(Len(k) - Len(gargs.namespace)) |->
                            k[j + Len(gargs.namespace)]]
                   ELSE k
    IN  IF gargs.lowercase THEN lower(trimmed) ELSE trimmed

\* C28 as worded: the result has exactly one entry per configuration key that
\* starts with the namespace, under its result key and with the same value;
\* no other key appears and the configuration is unchanged.
C28_OneEntryPerKey ==
    [][grv'.called =>
          /\ DOMAIN grv'.rv = {ResultKey(i) : i \in Matching}
          /\ Cardinality(DOMAIN grv'.rv) = Cardinality(Matching)
          /\ \A i \in Matching : grv'.rv[ResultKey(i)] = cfg[i][2]
          /\ cfg' = cfg]_vars

\* C28, amended: the result has one entry per distinct result key of the
\* configuration keys that start with the namespace; where several of them
\* have the same result key (they differ only in case and lowercase is set)
\* the entry holds the value of the last of them in iteration order. No other
\* key appears and the configuration is unchanged.
C28_OneEntryPerResultKey ==
    [][grv'.called =>
          /\ DOMAIN grv'.rv = {ResultKey(i) : i \in Matching}
          /\ \A i \in Matching :
                 (\A j \in Matching : ResultKey(j) = ResultKey(i) => j <= i) =>
                     grv'.rv[ResultKey(i)] = cfg[i][2]
          /\ cfg' = cfg]_vars

\* Two keys that differ only in case were asked for with lowercase set: the
\* result has a single entry, with the value of the second.
C28_Witness ==
    /\ grv.called
    /\ gargs.lowercase
    /\ gargs.namespace # <<>>
    /\ Cardinality(Matching) = 2
    /\ Cardinality(DOMAIN grv.rv) = 1
    /\ \A key \in DOMAIN grv.rv : grv.rv[key] = cfg[2][2]

\* The caller holds a batch that a get call returned with records.
HoldsBatch == ~ubatch.raised /\ ubatch.last_sequence_number # None

\* C34: the batch a get call returned with records is the bucket's own list,
\* not a copy: a flush empties it, an add is visible in it, and as long as
\* the caller holds it, it shows what the bucket holds.
C34_BatchIsBufferList ==
    [][/\ (HoldsBatch /\ ucalls' = ucalls + 1 /\ ucall' = "flush") => ubatch'.data = <<>>
       /\ (HoldsBatch /\ ucalls' = ucalls + 1 /\ ucall' = "add") =>
              /\ Len(ubatch'.data) = Len(ubatch.data) + 1
              /\ Last(ubatch'.data) = Last(ubucket'.data)
       /\ HoldsBatch' => ubatch'.data = ubucket'.data]_vars

\* A batch was returned, the bucket was flushed, and a record added after
\* the flush is the only one in the batch the caller still holds.
C34_Witness ==
    /\ ucall = "add"
    /\ HoldsBatch
    /\ Len(ubatch.data) = 1
    /\ ubatch.data[1].sequence_number # ubatch.last_sequence_number
    /\ ubucket.count = 0

\* C33: at every suspension point the tracked set holds exactly the shard ids
\* whose worker has been started and has not ended, and a worker is only
\* ever started for a shard id that has no such worker, so that no shard id
\* has two.
C33_TrackedAreRunning ==
    [][/\ shards' = Running'
       /\ \A D \in SUBSET listed :
              Dispatch("ACTIVE", D) => \A s \in D : s \notin Running
       /\ MonitorSpawn =>
              \A s \in diff_shards(DOMAIN cand, shards) : s \notin Running]_vars

\* One worker has ended and its id has left the tracked set while the monitor
\* has constructed a candidate for it; the other shard's worker is asleep
\* after its closure and still tracked.
C33_Witness ==
    \E s \in ShardIds : \E k \in ShardIds \ {s} :
        /\ pc[s] = "exited"
        /\ s \notin shards
        /\ mpc = "construct"
        /\ s \in DOMAIN cand
        /\ pc[k] = "sleep"
        /\ closed[k]
        /\ shards = {k}

\* The number of records handed to the hooks of shard s in this step.
BatchSize(s) == Len(handed'[s]) - Len(handed[s])

\* C31: with at most SHARD_READ_LIMIT records per fetch, the bucket of a
\* worker holds fewer than BUCKET_SIZE_LIMIT records whenever the worker is
\* about to fetch, and a batch handed to the hooks has at most
\* BUCKET_SIZE_LIMIT - 1 + SHARD_READ_LIMIT records.
C31_BatchSizeBound ==
    [][\A s \in ShardIds :
          /\ pc'[s] = "fetch" => Len(bucket'[s].data) < BUCKET_SIZE_LIMIT
          /\ BatchSize(s) <= BUCKET_SIZE_LIMIT - 1 + SHARD_READ_LIMIT]_vars

\* Two fetches, no closure: the first left one record below the size limit
\* in the bucket, the second added a full response and the batch of the
\* largest size was handed over.
C31_Witness ==
    \E s \in ShardIds :
        /\ budget = MaxFetchesBatch - 2
        /\ ~closed[s]
        /\ ~sclosed[s]
        /\ ~restarted[s]
        /\ pc[s] = "sleep"
        /\ Len(handed[s]) = BUCKET_SIZE_LIMIT - 1 + SHARD_READ_LIMIT
        /\ bucket[s] = InMemoryBucket

\* The worker of shard s completes a poll cycle in this step: its fetch
\* returned and the loop has come to its sleep.
CycleStep(s) == pc[s] = "fetch" /\ pc'[s] = "sleep"

====
